---- MODULE Spec2Model ----
(***************************************************************************)
(* Model of index.js: the document analysis server.                        *)
(*                                                                         *)
(*   POST /api/analyze       upload -> extract text -> model call ->       *)
(*                           JSON cleaning and parsing -> store -> doc_id  *)
(*   GET  /api/results/:id   lookup in the in-memory store                 *)
(*                                                                         *)
(* Text is a sequence of one-character strings.  JSON values are records   *)
(* [t, s, c]: t the kind, s the characters of a string or of a member's    *)
(* key, c the elements of an array or the members of an object.            *)
(***************************************************************************)
EXTENDS Integers, Sequences, FiniteSets, TLC

\* ------------------------------------------------------------------------
\* Bounds of the model
\* ------------------------------------------------------------------------

\* Number of POST /api/analyze invocations ever started.
MaxSubmits == 2

\* Longest text the model may put before, and after, the JSON it replies.
MaxWrap == 2

\* ------------------------------------------------------------------------
\* JSON values
\* ------------------------------------------------------------------------

Undefined == [t |-> "undefined", s |-> <<>>, c |-> <<>>]
JNull == [t |-> "null", s |-> <<>>, c |-> <<>>]
JTrue == [t |-> "true", s |-> <<>>, c |-> <<>>]
JFalse == [t |-> "false", s |-> <<>>, c |-> <<>>]
JStr(chars) == [t |-> "str", s |-> chars, c |-> <<>>]
JArr(elems) == [t |-> "arr", s |-> <<>>, c |-> elems]
JObj(members) == [t |-> "obj", s |-> <<>>, c |-> members]
JMember(key, val) == [t |-> "member", s |-> key, c |-> <<val>>]
\* A function object (Object.prototype's methods, the Object constructor).
JFunction == [t |-> "function", s |-> <<>>, c |-> <<>>]

\* obj[key] = val on a plain object: an existing key keeps its place and takes
\* the new value, a new key goes last.
SetMember(members, key, val) ==
    IF \E i \in 1..Len(members) : members[i].s = key
    THEN [i \in 1..Len(members) |->
            IF members[i].s = key THEN JMember(key, val) ELSE members[i]]
    ELSE Append(members, JMember(key, val))

\* obj[key] on a parsed object: the member's value, or undefined.
GetMember(obj, key) ==
    IF obj.t = "obj" /\ \E i \in 1..Len(obj.c) : obj.c[i].s = key
    THEN LET i == CHOOSE j \in 1..Len(obj.c) : obj.c[j].s = key
         IN obj.c[i].c[1]
    ELSE Undefined

\* ------------------------------------------------------------------------
\* JSON.parse, on texts over the characters  { } [ ] " : ,  space, letters,
\* '_' and '^' (no backslash, digit or control character is ever produced)
\* ------------------------------------------------------------------------

ParseFail == [ok |-> FALSE, val |-> Undefined, pos |-> 0]
ParseOk(val, pos) == [ok |-> TRUE, val |-> val, pos |-> pos]

\* First index >= i that holds no white space (Len(s) + 1 at the end).
RECURSIVE SkipWs(_, _)
SkipWs(s, i) ==
    IF i <= Len(s) /\ s[i] = " " THEN SkipWs(s, i + 1) ELSE i

\* Index of the '"' closing the string whose content starts at i, 0 if none.
RECURSIVE StringEnd(_, _)
StringEnd(s, i) ==
    IF i > Len(s) THEN 0
    ELSE IF s[i] = "\"" THEN i
    ELSE StringEnd(s, i + 1)

\* Does `word` stand in s at i ?
Literal(s, i, word) ==
    /\ i + Len(word) - 1 <= Len(s)
    /\ SubSeq(s, i, i + Len(word) - 1) = word

\* A string token at i: its content, and the index after the closing quote.
ParseString(s, i) ==
    IF i <= Len(s) /\ s[i] = "\"" /\ StringEnd(s, i + 1) > 0
    THEN ParseOk(JStr(SubSeq(s, i + 1, StringEnd(s, i + 1) - 1)),
                 StringEnd(s, i + 1) + 1)
    ELSE ParseFail

RECURSIVE ParseValue(_, _)
RECURSIVE ParseMembers(_, _, _)
RECURSIVE ParseElements(_, _, _)

\* The members of an object from i, a key expected there; acc holds the
\* members read so far.  pos is the index after the closing '}'.
ParseMembers(s, i, acc) ==
    LET k == ParseString(s, SkipWs(s, i))
        colon == SkipWs(s, k.pos)
        v == ParseValue(s, colon + 1)
        next == SkipWs(s, v.pos)
    IN IF ~k.ok THEN ParseFail
       ELSE IF colon > Len(s) \/ s[colon] # ":" THEN ParseFail
       ELSE IF ~v.ok THEN ParseFail
       ELSE IF next > Len(s) THEN ParseFail
       ELSE IF s[next] = "}"
            THEN ParseOk(JObj(SetMember(acc, k.val.s, v.val)), next + 1)
       ELSE IF s[next] = ","
            THEN ParseMembers(s, next + 1, SetMember(acc, k.val.s, v.val))
       ELSE ParseFail

\* The elements of an array from i, a value expected there.
ParseElements(s, i, acc) ==
    LET v == ParseValue(s, i)
        next == SkipWs(s, v.pos)
    IN IF ~v.ok THEN ParseFail
       ELSE IF next > Len(s) THEN ParseFail
       ELSE IF s[next] = "]" THEN ParseOk(JArr(Append(acc, v.val)), next + 1)
       ELSE IF s[next] = "," THEN ParseElements(s, next + 1, Append(acc, v.val))
       ELSE ParseFail

\* One JSON value from i (white space before it skipped).
ParseValue(s, i) ==
    LET j == SkipWs(s, i)
    IN IF j > Len(s) THEN ParseFail
       ELSE IF s[j] = "{"
            THEN IF SkipWs(s, j + 1) <= Len(s) /\ s[SkipWs(s, j + 1)] = "}"
                 THEN ParseOk(JObj(<<>>), SkipWs(s, j + 1) + 1)
                 ELSE ParseMembers(s, j + 1, <<>>)
       ELSE IF s[j] = "["
            THEN IF SkipWs(s, j + 1) <= Len(s) /\ s[SkipWs(s, j + 1)] = "]"
                 THEN ParseOk(JArr(<<>>), SkipWs(s, j + 1) + 1)
                 ELSE ParseElements(s, j + 1, <<>>)
       ELSE IF s[j] = "\"" THEN ParseString(s, j)
       ELSE IF Literal(s, j, <<"n", "u", "l", "l">>) THEN ParseOk(JNull, j + 4)
       ELSE IF Literal(s, j, <<"t", "r", "u", "e">>) THEN ParseOk(JTrue, j + 4)
       ELSE IF Literal(s, j, <<"f", "a", "l", "s", "e">>) THEN ParseOk(JFalse, j + 5)
       ELSE ParseFail

\* JSON.parse(s): one value and nothing but white space after it, or a throw
\* (ok = FALSE).
JSONParse(s) ==
    LET v == ParseValue(s, 1)
    IN IF v.ok /\ SkipWs(s, v.pos) = Len(s) + 1 THEN v ELSE ParseFail

\* ------------------------------------------------------------------------
\* JSON.stringify
\* ------------------------------------------------------------------------

RECURSIVE JoinSeq(_, _)
JoinSeq(parts, sep) ==
    IF parts = <<>> THEN <<>>
    ELSE IF Len(parts) = 1 THEN parts[1]
    ELSE parts[1] \o sep \o JoinSeq(Tail(parts), sep)

RECURSIVE JSONStringify(_)
JSONStringify(v) ==
    IF v.t = "str" THEN <<"\"">> \o v.s \o <<"\"">>
    ELSE IF v.t = "null" THEN <<"n", "u", "l", "l">>
    ELSE IF v.t = "true" THEN <<"t", "r", "u", "e">>
    ELSE IF v.t = "false" THEN <<"f", "a", "l", "s", "e">>
    ELSE IF v.t = "arr"
         THEN <<"[">> \o JoinSeq([i \in 1..Len(v.c) |-> JSONStringify(v.c[i])], <<",">>)
              \o <<"]">>
    ELSE IF v.t = "obj"
         THEN <<"{">> \o JoinSeq([i \in 1..Len(v.c) |->
                                    <<"\"">> \o v.c[i].s \o <<"\"", ":">>
                                    \o JSONStringify(v.c[i].c[1])], <<",">>)
              \o <<"}">>
    ELSE <<>>

\* ------------------------------------------------------------------------
\* analysisText.match(/\{[\s\S]*\}/)
\* ------------------------------------------------------------------------

IndicesOf(s, ch) == {i \in 1..Len(s) : s[i] = ch}
Min(S) == CHOOSE x \in S : \A y \in S : x <= y
Max(S) == CHOOSE x \in S : \A y \in S : x >= y

JsonMatchLazy(s) ==
    LET opens == IndicesOf(s, "{")
        closes == {j \in IndicesOf(s, "}") : opens # {} /\ j > Min(opens)}
    IN IF closes # {}
       THEN [found |-> TRUE, text |-> SubSeq(s, Min(opens), Min(closes))]
       ELSE [found |-> FALSE, text |-> <<>>]
\* The match: from the first '{' to the last '}' after it; found = FALSE is
\* the null the method returns when there is none.
JsonMatch(s) ==
    LET opens == IndicesOf(s, "{")
        closes == IndicesOf(s, "}")
    IN IF opens # {} /\ closes # {} /\ Max(closes) > Min(opens)
       THEN [found |-> TRUE, text |-> SubSeq(s, Min(opens), Max(closes))]
       ELSE [found |-> FALSE, text |-> <<>>]

\* ------------------------------------------------------------------------
\* The inner try/catch of POST /api/analyze: JSON cleaning and parsing
\* ------------------------------------------------------------------------

NoJsonMsg == "No valid JSON object found in the AI response."
SyntaxErrorMsg == "SyntaxError: Unexpected token in JSON"

\* What the try block yields: the parsed object, or the error it throws
\* (message) on its way to the inner catch.
TryParse(analysisText) ==
    LET jsonMatch == JsonMatch(analysisText)
        parsed == JSONParse(jsonMatch.text)
    IN IF ~jsonMatch.found
       THEN [ok |-> FALSE, val |-> Undefined, message |-> NoJsonMsg]
       ELSE IF ~parsed.ok
       THEN [ok |-> FALSE, val |-> Undefined, message |-> SyntaxErrorMsg]
       ELSE [ok |-> TRUE, val |-> parsed.val, message |-> ""]

\* ------------------------------------------------------------------------
\* Messages and responses
\* ------------------------------------------------------------------------

NoFileMsg == "No file uploaded."
UnsupportedMsg == "Unsupported file type. Please upload a PDF or DOCX."
EmptyTextMsg == "Could not extract text from the document."
InvalidFormatMsg == "The AI model returned an invalid or unexpected format."
FallbackMsg == "Failed to analyze document."
NotFoundMsg == "Analysis not found."

InnerCatchRethrow(parseErrorMessage) == parseErrorMessage
\* The error the inner catch throws in place of parseError.
InnerCatchMessage(parseErrorMessage) == InvalidFormatMsg

OuterCatchFallbackOnly(message) == FallbackMsg
\* error.message || 'Failed to analyze document.'
OuterCatchMessage(message) == IF message = "" THEN FallbackMsg ELSE message

NoDocId == ""
NoResponse == [status |-> 0, error |-> "", doc_id |-> NoDocId]
ErrorResponse(status, message) ==
    [status |-> status, error |-> message, doc_id |-> NoDocId]
OkResponse(doc_id) == [status |-> 200, error |-> "", doc_id |-> doc_id]

\* ------------------------------------------------------------------------
\* Inputs
\* ------------------------------------------------------------------------

Requests == 1..MaxSubmits

NoFile == "none"
PdfType == "application/pdf"
DocxType == "application/vnd.openxmlformats-officedocument.wordprocessingml.document"
Files == {NoFile, PdfType, DocxType, "text/plain"}

SupportedTypeAny(f) == TRUE
\* The two mimetype tests of the handler.
SupportedType(f) == f = PdfType \/ f = DocxType

\* documentText.substring(0, 30000): texts are modelled by their length.
PromptLimit == 30000
Truncate(len) == IF len > PromptLimit THEN PromptLimit ELSE len

\* What pdf() / mammoth.extractRawText() settle with: a text, or a throw.
TextLengths == {0, PromptLimit + 1}
ExtractorErrors == {"bad XRef entry", ""}
ExtractOutcomes ==
    [ok : {TRUE}, len : TextLengths, message : {""}]
    \cup [ok : {FALSE}, len : {0}, message : ExtractorErrors]

summaryKey == <<"s", "u", "m", "m", "a", "r", "y">>
riskyClausesKey == <<"r", "i", "s", "k", "y", "_", "c", "l", "a", "u", "s", "e", "s">>
explanationsKey == <<"e", "x", "p", "l", "a", "n", "a", "t", "i", "o", "n", "s">>
titleKey == <<"t", "i", "t", "l", "e">>
riskLevelKey == <<"r", "i", "s", "k", "_", "l", "e", "v", "e", "l">>

Clause ==
    JObj(<<JMember(titleKey, JStr(<<"x", "}">>)),
           JMember(riskLevelKey, JStr(<<"L", "O", "W">>))>>)
FullAnalysis ==
    JObj(<<JMember(summaryKey, JStr(<<"a">>)),
           JMember(riskyClausesKey, JArr(<<Clause>>)),
           JMember(explanationsKey, JStr(<<"b">>))>>)
NoClauses ==
    JObj(<<JMember(summaryKey, JStr(<<"a">>)),
           JMember(riskyClausesKey, JArr(<<>>)),
           JMember(explanationsKey, JStr(<<"b">>))>>)
NullSummary ==
    JObj(<<JMember(summaryKey, JNull),
           JMember(riskyClausesKey, JStr(<<"n", "o">>))>>)

\* '^' stands for the backquote of a code fence.
Fenced(text) ==
    <<"^", "^", "^", "j", "s", "o", "n", " ">> \o text \o <<" ", "^", "^", "^">>

\* What model.generateContent() settles with: a result whose response holds
\* a reply text, or a throw.
Replies ==
    { Fenced(JSONStringify(FullAnalysis)),
      <<"{", "}">>,
      <<"s", "o", "r", "r", "y">>,
      <<"}", " ", "{">>,
      <<"{", "w", "}">> }
ModelErrors == {"API key not valid"}
GenerateOutcomes ==
    [ok : {TRUE}, text : Replies, message : {""}]
    \cup [ok : {FALSE}, text : {<<>>}, message : ModelErrors]

\* ------------------------------------------------------------------------
\* The result store: const analysisResults = {}
\* ------------------------------------------------------------------------

Uuid(n) == "uuid-" \o ToString(n)
UUIDs == {Uuid(n) : n \in 1..MaxSubmits}

\* Property names every plain object inherits from Object.prototype.
ProtoKeys == {"__proto__", "constructor"}
Inherited(key) == IF key = "__proto__" THEN JObj(<<>>) ELSE JFunction

Uuidv4Reused(store) == {Uuid(1)}
\* uuidv4(): a random identifier, taken never to repeat one generated before
\* (every generated identifier is stored at once, so those are the keys).
Uuidv4(store) == UUIDs \ DOMAIN store

\* analysisResults[doc_id]
Lookup(store, doc_id) ==
    IF doc_id \in DOMAIN store THEN store[doc_id]
    ELSE IF doc_id \in ProtoKeys THEN Inherited(doc_id)
    ELSE Undefined

StoreReplacing(store, doc_id, analysisJSON) == [k \in {doc_id} |-> analysisJSON]
StoreNothing(store, doc_id, analysisJSON) == store
\* analysisResults[doc_id] = analysisJSON
StoreResult(store, doc_id, analysisJSON) ==
    [k \in DOMAIN store \cup {doc_id} |->
        IF k = doc_id THEN analysisJSON ELSE store[k]]

\* if (result): every object and function is truthy.
Truthy(v) == v.t \in {"obj", "arr", "function", "true"} \/ (v.t = "str" /\ v.s # <<>>)

\* ------------------------------------------------------------------------
\* State
\* ------------------------------------------------------------------------

VARIABLES
    analysisResults,  \* the store: doc_id -> parsed analysis
    pc,               \* per invocation: idle, extract, generate, response, done
    file,             \* per invocation: req.file's mimetype, or NoFile
    documentText,     \* per invocation: length of the extracted text
    modelCalls,       \* per invocation: the prompts sent to the model (text lengths)
    result,           \* per invocation: what generateContent resolved with
    res,              \* per invocation: the response sent
    console,          \* per invocation: what console.error was given, in how many lines
    lastFetch,        \* the last response of GET /api/results/:doc_id
    reply,            \* a model reply taken apart: text before, JSON object, text after
    normalized        \* what the JSON cleaning and parsing made of that reply

vars == <<analysisResults, pc, file, documentText, modelCalls, result, res,
          console, lastFetch, reply, normalized>>

NoResult == [resolved |-> FALSE, text |-> <<>>]
NoLog == [lines |-> 0, text |-> <<>>, error |-> ""]
NoFetch == [doc_id |-> "", status |-> 0, error |-> "", body |-> <<>>]
NoReply == [pre |-> <<>>, obj |-> JObj(<<>>), post |-> <<>>]
NotNormalized == [done |-> FALSE, ok |-> FALSE, val |-> Undefined, span |-> <<>>]

Init ==
    /\ analysisResults = [k \in {} |-> Undefined]
    /\ pc = [r \in Requests |-> "idle"]
    /\ file = [r \in Requests |-> NoFile]
    /\ documentText = [r \in Requests |-> 0]
    /\ modelCalls = [r \in Requests |-> <<>>]
    /\ result = [r \in Requests |-> NoResult]
    /\ res = [r \in Requests |-> NoResponse]
    /\ console = [r \in Requests |-> NoLog]
    /\ lastFetch = NoFetch
    /\ reply = NoReply
    /\ normalized = NotNormalized

\* response.text()
AnalysisText(r) == result[r].text

Respond(r, response) ==
    /\ res' = [res EXCEPT ![r] = response]
    /\ pc' = [pc EXCEPT ![r] = "done"]

\* The outer catch: log the error, answer 500 with its message.  `lines` and
\* `text` are what the inner catch logged before it (0 and nothing when the
\* error did not come through it).
OuterCatch(r, message, lines, text) ==
    /\ console' = [console EXCEPT
                     ![r] = [lines |-> lines + 1, text |-> text, error |-> message]]
    /\ Respond(r, ErrorResponse(500, OuterCatchMessage(message)))

\* ------------------------------------------------------------------------
\* POST /api/analyze
\* ------------------------------------------------------------------------

\* The handler up to its first await: the file and MIME type checks.
\* Invocations are numbered in the order they arrive.
Submit(r, f) ==
    /\ pc[r] = "idle"
    /\ \A q \in Requests : q < r => pc[q] # "idle"
    /\ file' = [file EXCEPT ![r] = f]
    /\ IF f = NoFile
       THEN Respond(r, ErrorResponse(400, NoFileMsg))
       ELSE IF SupportedType(f)
       THEN /\ pc' = [pc EXCEPT ![r] = "extract"]
            /\ res' = res
       ELSE Respond(r, ErrorResponse(400, UnsupportedMsg))
    /\ UNCHANGED <<analysisResults, documentText, modelCalls, result, console,
                   lastFetch, reply, normalized>>

SendPromptTwice(calls, len) == <<Truncate(len), Truncate(len)>>
\* model.generateContent(prompt): one more outbound call.
SendPrompt(calls, len) == Append(calls, Truncate(len))

\* The extraction settles: empty-text check, then the model call is issued.
ExtractDone(r, outcome) ==
    /\ pc[r] = "extract"
    /\ IF ~outcome.ok
       THEN /\ OuterCatch(r, outcome.message, 0, <<>>)
            /\ UNCHANGED <<documentText, modelCalls>>
       ELSE /\ documentText' = [documentText EXCEPT ![r] = outcome.len]
            /\ console' = console
            /\ IF outcome.len = 0
               THEN /\ Respond(r, ErrorResponse(400, EmptyTextMsg))
                    /\ modelCalls' = modelCalls
               ELSE /\ modelCalls' = [modelCalls EXCEPT
                                        ![r] = SendPrompt(@, outcome.len)]
                    /\ pc' = [pc EXCEPT ![r] = "generate"]
                    /\ res' = res
    /\ UNCHANGED <<analysisResults, file, result, lastFetch, reply, normalized>>

\* model.generateContent settles.
GenerateDone(r, outcome) ==
    /\ pc[r] = "generate"
    /\ IF ~outcome.ok
       THEN /\ OuterCatch(r, outcome.message, 0, <<>>)
            /\ result' = result
       ELSE /\ result' = [result EXCEPT
                            ![r] = [resolved |-> TRUE, text |-> outcome.text]]
            /\ pc' = [pc EXCEPT ![r] = "response"]
            /\ UNCHANGED <<res, console>>
    /\ UNCHANGED <<analysisResults, file, documentText, modelCalls, lastFetch,
                   reply, normalized>>

\* After await result.response: parse, store, answer.
ResponseDone(r) ==
    /\ pc[r] = "response"
    /\ LET parsed == TryParse(AnalysisText(r))
       IN IF parsed.ok
          THEN \E doc_id \in Uuidv4(analysisResults) :
                  /\ analysisResults' = StoreResult(analysisResults, doc_id, parsed.val)
                  /\ Respond(r, OkResponse(doc_id))
                  /\ console' = console
          ELSE /\ OuterCatch(r, InnerCatchMessage(parsed.message), 2, AnalysisText(r))
               /\ analysisResults' = analysisResults
    /\ UNCHANGED <<file, documentText, modelCalls, result, lastFetch, reply,
                   normalized>>

\* ------------------------------------------------------------------------
\* GET /api/results/:doc_id
\* ------------------------------------------------------------------------

FetchIds == UUIDs \cup ProtoKeys

FetchResponseInverted(store, doc_id) ==
    IF ~Truthy(Lookup(store, doc_id))
    THEN [doc_id |-> doc_id, status |-> 200, error |-> "",
          body |-> JSONStringify(Lookup(store, doc_id))]
    ELSE [doc_id |-> doc_id, status |-> 404, error |-> NotFoundMsg, body |-> <<>>]
\* The handler of GET /api/results/:doc_id, as a function of the store.
FetchResponse(store, doc_id) ==
    IF Truthy(Lookup(store, doc_id))
    THEN [doc_id |-> doc_id, status |-> 200, error |-> "",
          body |-> JSONStringify(Lookup(store, doc_id))]
    ELSE [doc_id |-> doc_id, status |-> 404, error |-> NotFoundMsg, body |-> <<>>]

Fetch(doc_id) ==
    /\ lastFetch' = FetchResponse(analysisResults, doc_id)
    /\ UNCHANGED <<analysisResults, pc, file, documentText, modelCalls, result,
                   res, console, reply, normalized>>

Next ==
    \/ \E r \in Requests, f \in Files : Submit(r, f)
    \/ \E r \in Requests, outcome \in ExtractOutcomes : ExtractDone(r, outcome)
    \/ \E r \in Requests, outcome \in GenerateOutcomes : GenerateDone(r, outcome)
    \/ \E r \in Requests : ResponseDone(r)
    \/ \E doc_id \in FetchIds : Fetch(doc_id)

Spec == Init /\ [][Next]_vars

\* ------------------------------------------------------------------------
\* The JSON cleaning and parsing alone, on replies that wrap a JSON object
\* ------------------------------------------------------------------------

WrapChars == {"^", "w", "{", "}"}
Wraps == UNION {[1..n -> WrapChars] : n \in 0..MaxWrap}
SampleObjects == {FullAnalysis, NoClauses, NullSummary, JObj(<<>>)}
WrappedReplies == [pre : Wraps, obj : SampleObjects, post : Wraps]

ReplyText(rp) == rp.pre \o JSONStringify(rp.obj) \o rp.post

InitNormalize ==
    /\ analysisResults = [k \in {} |-> Undefined]
    /\ pc = [r \in Requests |-> "idle"]
    /\ file = [r \in Requests |-> NoFile]
    /\ documentText = [r \in Requests |-> 0]
    /\ modelCalls = [r \in Requests |-> <<>>]
    /\ result = [r \in Requests |-> NoResult]
    /\ res = [r \in Requests |-> NoResponse]
    /\ console = [r \in Requests |-> NoLog]
    /\ lastFetch = NoFetch
    /\ reply \in WrappedReplies
    /\ normalized = NotNormalized

\* Lines 71-78 applied to the reply.
Normalize ==
    /\ ~normalized.done
    /\ normalized' = [done |-> TRUE,
                      ok |-> TryParse(ReplyText(reply)).ok,
                      val |-> TryParse(ReplyText(reply)).val,
                      span |-> JsonMatch(ReplyText(reply)).text]
    /\ UNCHANGED <<analysisResults, pc, file, documentText, modelCalls, result,
                   res, console, lastFetch, reply>>

NextNormalize == Normalize

SpecNormalize == InitNormalize /\ [][NextNormalize]_vars

\* ------------------------------------------------------------------------
\* Properties
\* ------------------------------------------------------------------------

\* What the cleaning and parsing makes of each reply, and of the reply
\* invocation r received.
ParsedReplies == [text \in Replies \cup {<<>>} |-> TryParse(text)]
ParsedReply(r) == ParsedReplies[result[r].text]

Succeeded(r) == res[r].status = 200
IssuedIds == {res[r].doc_id : r \in {q \in Requests : Succeeded(q)}}

\* No '{' is followed, anywhere later, by a '}'.
NoBracePair(s) ==
    ~\E i \in 1..Len(s) : \E j \in 1..Len(s) : i < j /\ s[i] = "{" /\ s[j] = "}"

\* summary, risky_clauses and explanations are there and not null, and
\* risky_clauses is an array.
WellFormed(v) ==
    /\ GetMember(v, summaryKey).t \notin {"undefined", "null"}
    /\ GetMember(v, riskyClausesKey).t = "arr"
    /\ GetMember(v, explanationsKey).t \notin {"undefined", "null"}

\* C1: once a submit has answered 200 with a doc_id, every step leaves that
\* doc_id bound to the object parsed from that submit's model reply, and every
\* fetch of it answers 200 with exactly that object.
C1_FetchReturnsStoredAnalysis ==
    [][\A r \in Requests :
          res'[r].status = 200 =>
            /\ Lookup(analysisResults', res'[r].doc_id) = ParsedReplies[result'[r].text].val
            /\ (lastFetch' # lastFetch /\ lastFetch'.doc_id = res'[r].doc_id) =>
                  /\ lastFetch'.status = 200
                  /\ lastFetch'.body = JSONStringify(ParsedReplies[result'[r].text].val)]_vars

\* C1 witness: two submits have succeeded and the last fetch returned the
\* analysis of the first of them.
C1_Witness ==
    /\ \A r \in {1, 2} : Succeeded(r)
    /\ lastFetch.status = 200
    /\ lastFetch.doc_id = res[1].doc_id
    /\ lastFetch.body = JSONStringify(FullAnalysis)

\* C2: a fetch with an identifier that no successful submit returned answers
\* 404 with an error body.
C2_UnknownIdIs404 ==
    (lastFetch.status # 0 /\ lastFetch.doc_id \notin IssuedIds) =>
        (lastFetch.status = 404 /\ lastFetch.error = NotFoundMsg)

\* C3: a doc_id sent in a 200 response is a key of the store, bound to the
\* object parsed in full from the reply of the submit that sent it.
C3_ReturnedIdIsStored ==
    \A r \in Requests :
        Succeeded(r) =>
            /\ res[r].doc_id \in DOMAIN analysisResults
            /\ ParsedReply(r).ok
            /\ analysisResults[res[r].doc_id] = ParsedReply(r).val
            /\ analysisResults[res[r].doc_id].t = "obj"

\* C3 witness: a submit has answered 200 and its record is in the store while
\* another submit is still awaiting its model reply.
C3_Witness ==
    \E r \in Requests : \E q \in Requests :
        /\ Succeeded(r)
        /\ res[r].doc_id \in DOMAIN analysisResults
        /\ pc[q] = "generate"

\* C4: two submits that both succeed return distinct doc_ids, and each doc_id
\* is bound to, and fetched as, the analysis of its own submit's reply.
C4_ConcurrentSubmitsDistinct ==
    \A r \in Requests : \A q \in Requests :
        (r # q /\ Succeeded(r) /\ Succeeded(q)) =>
            /\ res[r].doc_id # res[q].doc_id
            /\ Lookup(analysisResults, res[r].doc_id) = ParsedReply(r).val
            /\ FetchResponse(analysisResults, res[r].doc_id).body
                  = JSONStringify(ParsedReply(r).val)
            /\ (lastFetch.status = 200 /\ lastFetch.doc_id = res[r].doc_id) =>
                  lastFetch.body = JSONStringify(ParsedReply(r).val)

\* C4 witness: two submits with different replies have both succeeded, and
\* the first one's doc_id has been fetched since.
C4_Witness ==
    /\ Succeeded(1) /\ Succeeded(2)
    /\ ParsedReply(1).val # ParsedReply(2).val
    /\ res[1].doc_id # res[2].doc_id
    /\ lastFetch.doc_id = res[1].doc_id /\ lastFetch.status = 200

FixedMessages ==
    {NoFileMsg, UnsupportedMsg, EmptyTextMsg, InvalidFormatMsg, FallbackMsg}

\* C5 as stated: the body of every failing submit carries one of the fixed
\* messages of the handler, never a message raised by a failing stage.
C5_OnlyFixedMessages ==
    \A r \in Requests :
        res[r].status \notin {0, 200} => res[r].error \in FixedMessages

\* C5 as amended: a failing submit carries no doc_id; a validation failure
\* carries its fixed message; a parsing failure carries the fixed
\* invalid-format message while the raw reply goes to the log only; a throw of
\* the extractor or of the model call carries the thrown error's own message,
\* or the fixed fallback when that message is empty.
C5_FailureBodies ==
    \A r \in Requests :
        res[r].status \notin {0, 200} =>
            /\ res[r].doc_id = NoDocId
            /\ res[r].status \in {400, 500}
            /\ res[r].status = 400 =>
                  res[r].error \in {NoFileMsg, UnsupportedMsg, EmptyTextMsg}
            /\ (res[r].status = 500 /\ result[r].resolved) =>
                  /\ res[r].error = InvalidFormatMsg
                  /\ console[r].text = result[r].text
            /\ (res[r].status = 500 /\ ~result[r].resolved) =>
                  /\ console[r].error \in ExtractorErrors \cup ModelErrors
                  /\ res[r].error = IF console[r].error = ""
                                    THEN FallbackMsg ELSE console[r].error

\* C5 witness: one submit failed at parsing, another by a throw of the
\* extractor whose message went out in the body.
C5_Witness ==
    \E r \in Requests : \E q \in Requests :
        /\ res[r].status = 500 /\ result[r].resolved /\ console[r].text # <<>>
        /\ res[q].status = 500 /\ documentText[q] = 0
        /\ res[q].error = "bad XRef entry"

\* C6: the step that finishes a submit whose model reply holds no '{' followed
\* later by a '}' answers 500 with the fixed invalid-format message and no
\* doc_id, and leaves the store as it was.
C6_NoJsonFound ==
    [][\A r \in Requests :
          (pc[r] = "response" /\ pc'[r] = "done" /\ NoBracePair(result[r].text)) =>
            /\ res'[r] = [status |-> 500, error |-> InvalidFormatMsg, doc_id |-> NoDocId]
            /\ analysisResults' = analysisResults]_vars

\* C6 witness: a submit whose reply has both braces, but no '{' before a '}',
\* has finished while the store holds another submit's record.
C6_Witness ==
    \E r \in Requests :
        /\ pc[r] = "done" /\ result[r].resolved
        /\ NoBracePair(result[r].text)
        /\ IndicesOf(result[r].text, "{") # {}
        /\ res[r].status = 500
        /\ DOMAIN analysisResults # {}

\* C7: a submit with no file answers 400 at once, whatever else holds; with a
\* file of another type than PDF or DOCX it answers 400 before any extraction;
\* with an extraction that yields empty text it answers 400.  None of the
\* three carries a doc_id, calls the model or changes the store.
C7_ValidationRejects ==
    [][\A r \in Requests :
          /\ (pc[r] = "idle" /\ pc'[r] # "idle") =>
                /\ file'[r] = NoFile =>
                      res'[r] = [status |-> 400, error |-> NoFileMsg, doc_id |-> NoDocId]
                /\ file'[r] \notin {NoFile, PdfType, DocxType} =>
                      res'[r] = [status |-> 400, error |-> UnsupportedMsg, doc_id |-> NoDocId]
                /\ file'[r] \in {PdfType, DocxType} =>
                      (pc'[r] = "extract" /\ res'[r].status = 0)
          /\ (pc[r] = "extract" /\ pc'[r] # "extract"
                /\ documentText'[r] = 0 /\ console'[r] = console[r]) =>
                res'[r] = [status |-> 400, error |-> EmptyTextMsg, doc_id |-> NoDocId]
          /\ (res[r].status = 0 /\ res'[r].status = 400) =>
                /\ res'[r].doc_id = NoDocId
                /\ modelCalls'[r] = <<>>
                /\ analysisResults' = analysisResults
                /\ (res'[r].error = EmptyTextMsg) = (file'[r] \in {PdfType, DocxType})
          /\ (res'[r].status # 0 /\ file'[r] \notin {PdfType, DocxType}) =>
                res'[r].status = 400]_vars

\* C7 witness: one submit was rejected for its type, another for its empty
\* text.
C7_Witness ==
    \E r \in Requests : \E q \in Requests :
        /\ res[r] = [status |-> 400, error |-> UnsupportedMsg, doc_id |-> NoDocId]
        /\ res[q] = [status |-> 400, error |-> EmptyTextMsg, doc_id |-> NoDocId]
        /\ file[q] = DocxType

\* C8 as stated: the analysis stored for every successful submit has non-null
\* summary, risky_clauses and explanations, risky_clauses being an array.
C8_FetchedAnalysisWellFormed ==
    \A r \in Requests :
        Succeeded(r) => WellFormed(Lookup(analysisResults, res[r].doc_id))

\* C8 as amended: a successful submit had a PDF or DOCX file with non-empty
\* text, and a fetch of its doc_id answers 200 with the object of the model
\* reply as it was parsed; that analysis has non-null summary, risky_clauses
\* (an array) and explanations whenever the object in the reply has them.
C8_FetchedAnalysisAsReplied ==
    \A r \in Requests :
        Succeeded(r) =>
            LET fetched == FetchResponse(analysisResults, res[r].doc_id)
                body == JSONParse(fetched.body)
            IN /\ file[r] \in {PdfType, DocxType}
               /\ documentText[r] > 0
               /\ fetched.status = 200
               /\ body.ok
               /\ body.val = ParsedReply(r).val
               /\ WellFormed(ParsedReply(r).val) => WellFormed(body.val)

\* C8 witness: a PDF submit and a DOCX submit have both succeeded with a
\* well-formed analysis.
C8_Witness ==
    \E r \in Requests : \E q \in Requests :
        /\ file[r] = PdfType /\ file[q] = DocxType
        /\ Succeeded(r) /\ Succeeded(q)
        /\ WellFormed(Lookup(analysisResults, res[r].doc_id))
        /\ WellFormed(Lookup(analysisResults, res[q].doc_id))

\* C9 as stated: whatever text wraps a valid JSON object, the cleaning and
\* parsing succeeds and yields that object.
C9_AnyWrappingIgnored ==
    normalized.done => (normalized.ok /\ normalized.val = reply.obj)

\* C9 as amended: the span taken runs from the first '{' to the last '}' of
\* the reply; when the text before the object holds no '{' and the text after
\* it no '}', the span is the object's text and parsing yields that object.
C9_BraceFreeWrappingIgnored ==
    normalized.done =>
        LET text == ReplyText(reply)
            first == Len(reply.pre) + 1
            last == Len(text) - Len(reply.post)
        IN /\ \E a \in 0..Len(text) : \E b \in 0..Len(text) :
                /\ a < b
                /\ normalized.span = SubSeq(text, a + 1, b)
                /\ text[a + 1] = "{" /\ text[b] = "}"
                /\ IndicesOf(SubSeq(text, 1, a), "{") = {}
                /\ IndicesOf(SubSeq(text, b + 1, Len(text)), "}") = {}
           /\ (IndicesOf(reply.pre, "{") = {} /\ IndicesOf(reply.post, "}") = {}) =>
                /\ normalized.span = SubSeq(text, first, last)
                /\ normalized.ok
                /\ normalized.val = reply.obj

\* C9 witness: an analysis with a clause, wrapped in fence markers before and
\* after, has been normalized.
C9_Witness ==
    /\ normalized.done /\ normalized.ok
    /\ reply.obj = FullAnalysis
    /\ reply.pre = <<"^", "^">>
    /\ reply.post = <<"^", "^">>

\* C10: an invocation has made one model call if its extraction gave
\* non-empty text and none otherwise, at every moment until and after its
\* response; the store holds exactly one entry per submit that answered 200,
\* and none for a submit that answered an error.
C10_OneCallOneInsert ==
    /\ \A r \in Requests :
          /\ Len(modelCalls[r]) = IF documentText[r] > 0 THEN 1 ELSE 0
          /\ pc[r] \in {"generate", "response"} => documentText[r] > 0
          /\ res[r].status \in {400, 500} => res[r].doc_id \notin DOMAIN analysisResults
          /\ Succeeded(r) => res[r].doc_id \in DOMAIN analysisResults
    /\ Cardinality(DOMAIN analysisResults) = Cardinality({r \in Requests : Succeeded(r)})
    /\ DOMAIN analysisResults = IssuedIds

\* C10 witness: one submit failed after its single model call, another
\* succeeded, and the store holds one entry.
C10_Witness ==
    \E r \in Requests : \E q \in Requests :
        /\ res[r].status = 500 /\ Len(modelCalls[r]) = 1
        /\ Succeeded(q)
        /\ Cardinality(DOMAIN analysisResults) = 1
====
